---- MODULE Spec2Model ----
(***************************************************************************)
(* Realtime session-synchronisation core of OpenReplica's frontend:        *)
(*   - the useWebSocket hook (hooks/useWebSocket.ts, src/unnamed/part_003):*)
(*     connect / onopen / onmessage / onclose / onerror / disconnect, the  *)
(*     reconnect timer and the mount effect;                               *)
(*   - the zustand stores it writes: sessionStore (agentStatus,            *)
(*     currentResponse, conversations, currentConversation, wsConnection)  *)
(*     and appStore (isConnected).                                         *)
(* The browser is single-threaded: every handler below runs to completion, *)
(* so each handler is one atomic action.                                   *)
(***************************************************************************)
EXTENDS Integers, Sequences, FiniteSets, TLC

(***************************************************************************)
(* Bounds of the model.                                                    *)
(***************************************************************************)
\* transports that exist at the same time (closed, unreferenced ones are collected)
MaxSockets == 2
\* reconnect timers that are pending at the same time
MaxTimers == 2
\* messages held by one conversation
MaxMsgs == 2
\* characters held by the streaming buffer
MaxBuf == 2
\* frames sendMessage transmits over one transport
MaxSent == 2

(***************************************************************************)
(* Program constants.                                                      *)
(***************************************************************************)
maxReconnectAttempts == 5
NormalClosure == 1000
BaseDelay == 1000
MaxDelay == 30000

\* the values of the sessionId prop: null, or a session id
NoSession == "null"
Sessions == {"s1"}

\* a field that is absent from a frame (undefined in JS)
NoField == "<undefined>"
\* null references (wsRef.current, wsConnection, reconnectTimeoutRef.current)
Null == 0

SocketIds == 1..MaxSockets
TimerIds == 1..MaxTimers

\* agentStatus: 'idle' | 'thinking' | 'responding' | 'executing' | 'error'
AgentStatuses == {"idle", "thinking", "responding", "executing", "error"}

\* the conversations the REST collaborator returns for a session (ids are keys)
ServerConversations(sid) ==
  IF sid = "s1" THEN {<<"c1">>, <<"c1", "c2">>} ELSE {}

VARIABLES
  sessionId,             \* the prop of useWebSocket(sessionId)
  sockets,               \* the WebSocket objects: [session, readyState, closing, sent]
  wsRef,                 \* wsRef.current
  timers,                \* the setTimeout handles: [pending, delay, session]
  reconnectTimeoutRef,   \* reconnectTimeoutRef.current
  reconnectAttemptsRef,  \* reconnectAttemptsRef.current
  failing,               \* the socket whose error event ran and whose close event follows
  isConnected,           \* appStore.isConnected
  wsConnection,          \* sessionStore.wsConnection
  agentStatus,           \* sessionStore.agentStatus
  currentResponse,       \* sessionStore.currentResponse
  conversations,         \* sessionStore.conversations
  currentConversation,   \* sessionStore.currentConversation
  hookIsConnected,       \* isConnected as useWebSocket returned it at the last render
  last                   \* the handler that ran last, with its input

vars == <<sessionId, sockets, wsRef, timers, reconnectTimeoutRef, reconnectAttemptsRef,
          failing, isConnected, wsConnection, agentStatus, currentResponse,
          conversations, currentConversation, hookIsConnected, last>>

\* the state as one value, so that handlers compose as the code calls them
State ==
  [sessionId |-> sessionId, sockets |-> sockets, wsRef |-> wsRef, timers |-> timers,
   reconnectTimeoutRef |-> reconnectTimeoutRef,
   reconnectAttemptsRef |-> reconnectAttemptsRef, failing |-> failing,
   isConnected |-> isConnected, wsConnection |-> wsConnection,
   agentStatus |-> agentStatus, currentResponse |-> currentResponse,
   conversations |-> conversations, currentConversation |-> currentConversation,
   hookIsConnected |-> hookIsConnected]


(***************************************************************************)
(* Values.                                                                 *)
(***************************************************************************)
\* no WebSocket object in this slot
FreeSocket == [session |-> NoSession, readyState |-> "FREE", closing |-> "none",
               sent |-> <<>>]
\* no timer in this slot
FreeTimer == [pending |-> FALSE, delay |-> 0, session |-> NoSession]
\* currentConversation: null
NoConversation == [id |-> "<null>", messages |-> <<>>]

Conversation(cid) == [id |-> cid, messages |-> <<>>]

\* JS truthiness of an optional string field: undefined and '' are falsy
Truthy(v) == v # NoField /\ v # ""

\* message.conversation_id || ''
OrEmpty(v) == IF Truthy(v) THEN v ELSE ""

RECURSIVE Pow2(_)
Pow2(n) == IF n = 0 THEN 1 ELSE 2 * Pow2(n - 1)

Min(a, b) == IF a <= b THEN a ELSE b

\* Math.min(1000 * Math.pow(2, reconnectAttemptsRef.current), 30000)
ReconnectDelay(attempts) == Min(BaseDelay * Pow2(attempts), MaxDelay)

\* the readyState values in which the WebSocket object can still fire events
Live == {"CONNECTING", "OPEN", "CLOSING"}

LiveSockets(st) == {s \in SocketIds : st.sockets[s].readyState \in Live}
PendingTimers(st) == {t \in TimerIds : st.timers[t].pending}

\* A closed socket nothing refers to, and a timer that ran or was cleared and
\* that reconnectTimeoutRef no longer holds, are garbage: their slots are reused.
Collect(st) ==
  [st EXCEPT
     !.sockets = [s \in SocketIds |->
                    IF st.sockets[s].readyState = "CLOSED"
                       /\ st.wsRef # s /\ st.wsConnection # s
                    THEN FreeSocket ELSE st.sockets[s]],
     !.timers = [t \in TimerIds |->
                   IF ~st.timers[t].pending /\ st.reconnectTimeoutRef # t
                   THEN FreeTimer ELSE st.timers[t]]]

FreeSocketIds(st) == {s \in SocketIds : Collect(st).sockets[s].readyState = "FREE"}
FreeTimerIds(st) == {t \in TimerIds : Collect(st).timers[t] = FreeTimer}

\* the slot a new object takes
Lowest(S) == CHOOSE x \in S : \A y \in S : x <= y

(***************************************************************************)
(* sessionStore: addMessage, the streaming buffer, agentStatus.            *)
(***************************************************************************)
\* a slip in addMessage: the current conversation receives every message
addMessage_AlwaysCurrent(st, message) ==
  [st EXCEPT
     !.conversations =
        [sid \in Sessions |->
           [i \in 1..Len(st.conversations[sid]) |->
              LET c == st.conversations[sid][i] IN
                IF c.id = message.conversation_id
                THEN [c EXCEPT !.messages = Append(@, message)]
                ELSE c]],
     !.currentConversation =
        IF st.currentConversation # NoConversation
        THEN [st.currentConversation EXCEPT !.messages = Append(@, message)]
        ELSE st.currentConversation]

\* a slip in addMessage: the message is put in front of the others
addMessage_Prepends(st, message) ==
  [st EXCEPT
     !.conversations =
        [sid \in Sessions |->
           [i \in 1..Len(st.conversations[sid]) |->
              LET c == st.conversations[sid][i] IN
                IF c.id = message.conversation_id
                THEN [c EXCEPT !.messages = <<message>> \o @]
                ELSE c]],
     !.currentConversation =
        IF st.currentConversation.id = message.conversation_id
        THEN [st.currentConversation EXCEPT !.messages = <<message>> \o @]
        ELSE st.currentConversation]

\* addMessage: message appended to every stored conversation whose id is
\* message.conversation_id, and to currentConversation when its id matches
addMessage(st, message) ==
  [st EXCEPT
     !.conversations =
        [sid \in Sessions |->
           [i \in 1..Len(st.conversations[sid]) |->
              LET c == st.conversations[sid][i] IN
                IF c.id = message.conversation_id
                THEN [c EXCEPT !.messages = Append(@, message)]
                ELSE c]],
     !.currentConversation =
        IF st.currentConversation.id = message.conversation_id
        THEN [st.currentConversation EXCEPT !.messages = Append(@, message)]
        ELSE st.currentConversation]

setAgentStatus(st, status) == [st EXCEPT !.agentStatus = status]
addToCurrentResponse(st, chunk) == [st EXCEPT !.currentResponse = @ \o chunk]
clearCurrentResponse(st) == [st EXCEPT !.currentResponse = ""]
setConnectionStatus(st, connected) == [st EXCEPT !.isConnected = connected]
setWsConnection(st, ws) == [st EXCEPT !.wsConnection = ws]

\* the assistant Message built by the agent_response_end branch
AssistantMessage(message) ==
  [conversation_id |-> OrEmpty(message.conversation_id),
   role |-> "assistant",
   content |-> message.full_response]

(***************************************************************************)
(* handleMessage: the event dispatcher, one operator per case.             *)
(***************************************************************************)
\* a slip in case 'agent_response_start': the state before the first chunk is
\* reported as thinking
onAgentResponseStart_SetsThinking(st) ==
  clearCurrentResponse(setAgentStatus(st, "thinking"))

\* a slip in case 'agent_response_start': the buffer is not cleared
onAgentResponseStart_KeepsBuffer(st) == setAgentStatus(st, "responding")

\* case 'agent_response_start'
onAgentResponseStart(st) == clearCurrentResponse(setAgentStatus(st, "responding"))

\* a slip in case 'agent_response_chunk': each chunk is also committed to the
\* current conversation as a message of its own
onAgentResponseChunk_Commits(st, message) ==
  IF Truthy(message.content)
  THEN addMessage(addToCurrentResponse(st, message.content),
                  [conversation_id |-> st.currentConversation.id,
                   role |-> "assistant", content |-> message.content])
  ELSE st

\* case 'agent_response_chunk'
onAgentResponseChunk(st, message) ==
  IF Truthy(message.content) THEN addToCurrentResponse(st, message.content) ELSE st

\* a slip in case 'agent_response_end': the streamed buffer wins over
\* full_response whenever the buffer is not empty
onAgentResponseEnd_BufferWins(st, message) ==
  LET idle == setAgentStatus(st, "idle") IN
    clearCurrentResponse(
      IF Truthy(message.full_response)
      THEN addMessage(idle, [AssistantMessage(message) EXCEPT
                               !.content = IF st.currentResponse # ""
                                           THEN st.currentResponse
                                           ELSE message.full_response])
      ELSE idle)

\* case 'agent_response_end'
onAgentResponseEnd(st, message) ==
  LET idle == setAgentStatus(st, "idle") IN
    clearCurrentResponse(
      IF Truthy(message.full_response)
      THEN addMessage(idle, AssistantMessage(message))
      ELSE idle)

\* case 'code_execution'
onCodeExecution(st) == setAgentStatus(st, "executing")

\* case 'code_result'
onCodeResult(st) == setAgentStatus(st, "idle")

\* a slip in case 'agent_error': an error reported while the agent is idle
\* is only shown, not recorded
onAgentError_OnlyWhenBusy(st) ==
  IF st.agentStatus = "idle" THEN st ELSE setAgentStatus(st, "error")

\* case 'agent_error'
onAgentError(st) == setAgentStatus(st, "error")

\* a slip in case 'error': the generic error notice also drives the agent state
onErrorNotice_SetsError(st) == setAgentStatus(st, "error")

\* case 'error': a toast, no store mutation
onErrorNotice(st) == st

\* a slip in handleMessage: a frame of unknown type ends the response in
\* progress
handleMessage_DefaultResets(st, message) ==
  CASE message.type = "pong" -> st
    [] message.type = "agent_response_start" -> onAgentResponseStart(st)
    [] message.type = "agent_response_chunk" -> onAgentResponseChunk(st, message)
    [] message.type = "agent_response_end" -> onAgentResponseEnd(st, message)
    [] message.type = "code_execution" -> onCodeExecution(st)
    [] message.type = "code_result" -> onCodeResult(st)
    [] message.type = "file_change" -> st
    [] message.type = "agent_error" -> onAgentError(st)
    [] message.type = "error" -> onErrorNotice(st)
    [] OTHER -> clearCurrentResponse(setAgentStatus(st, "idle"))

handleMessage(st, message) ==
  CASE message.type = "pong" -> st
    [] message.type = "agent_response_start" -> onAgentResponseStart(st)
    [] message.type = "agent_response_chunk" -> onAgentResponseChunk(st, message)
    [] message.type = "agent_response_end" -> onAgentResponseEnd(st, message)
    [] message.type = "code_execution" -> onCodeExecution(st)
    [] message.type = "code_result" -> onCodeResult(st)
    [] message.type = "file_change" -> st
    [] message.type = "agent_error" -> onAgentError(st)
    [] message.type = "error" -> onErrorNotice(st)
    [] OTHER -> st

\* a slip in onmessage: the catch block treats the frame as an agent error
onmessage_CatchSetsError(st, raw) ==
  IF raw.parses THEN handleMessage(st, raw.msg) ELSE setAgentStatus(st, "error")

\* onmessage: JSON.parse, then handleMessage; a frame that does not parse is dropped
onmessage(st, raw) == IF raw.parses THEN handleMessage(st, raw.msg) ELSE st


(***************************************************************************)
(* useWebSocket: connect and the handlers it attaches.                     *)
(***************************************************************************)
\* connect(): returns at once without a session id; `throws` is the case in
\* which new WebSocket(wsUrl) throws, so that wsRef.current keeps its value
\* and no handler is attached.  The transport wsRef.current held before is
\* neither closed nor detached.
connect(st, sid, throws) ==
  IF sid = NoSession THEN st
  ELSE IF throws THEN setConnectionStatus(st, FALSE)
  ELSE LET s == Lowest(FreeSocketIds(st)) IN
         [Collect(st) EXCEPT
            !.sockets[s] = [session |-> sid, readyState |-> "CONNECTING",
                            closing |-> "none", sent |-> <<>>],
            !.wsRef = s]

\* the guard under which the model lets connect(sid, throws) run
CanConnect(st, sid, throws) ==
  sid = NoSession \/ throws \/ FreeSocketIds(st) # {}

\* WebSocket.send(data) on socket s: the frame is transmitted when s is open;
\* it throws on a connecting socket and is discarded by a closing or closed one
wsSend(st, s, frame) ==
  IF st.sockets[s].readyState = "OPEN"
  THEN [st EXCEPT !.sockets[s].sent = Append(@, frame)]
  ELSE st

\* the frame onopen sends
Ping == [type |-> "ping", content |-> NoField]

\* onopen of socket s: the store receives wsRef.current, whichever socket
\* opened, and the ping goes to wsRef.current as well
onopen(st, s) ==
  LET opened == [st EXCEPT !.sockets[s].readyState = "OPEN"]
      reset == [setWsConnection(setConnectionStatus(opened, TRUE), opened.wsRef)
                  EXCEPT !.reconnectAttemptsRef = 0]
  IN IF reset.wsRef # Null THEN wsSend(reset, reset.wsRef, Ping) ELSE reset

\* the reconnect the onclose handler schedules
scheduleReconnect(st, sid) ==
  LET t == Lowest(FreeTimerIds(st)) IN
    [Collect(st) EXCEPT
       !.timers[t] = [pending |-> TRUE,
                      delay |-> ReconnectDelay(st.reconnectAttemptsRef),
                      session |-> sid],
       !.reconnectTimeoutRef = t]

\* a slip in onclose: the agent state is reset only when a reconnect follows
onclose_KeepsStatusOnGraceful(st, s, code) ==
  LET sid == st.sockets[s].session
      closed == [st EXCEPT !.sockets[s].readyState = "CLOSED",
                           !.sockets[s].closing = "none",
                           !.failing = Null]
      reset == setWsConnection(setConnectionStatus(closed, FALSE), Null)
  IN IF code # NormalClosure /\ st.reconnectAttemptsRef < maxReconnectAttempts
     THEN scheduleReconnect(setAgentStatus(reset, "idle"), sid)
     ELSE Collect(reset)

\* a slip in onclose: only the first closure is retried
onclose_RetriesOnce(st, s, code) ==
  LET sid == st.sockets[s].session
      closed == [st EXCEPT !.sockets[s].readyState = "CLOSED",
                           !.sockets[s].closing = "none",
                           !.failing = Null]
      reset == setAgentStatus(setWsConnection(setConnectionStatus(closed, FALSE), Null),
                              "idle")
  IN IF code # NormalClosure /\ st.reconnectAttemptsRef < 1
     THEN scheduleReconnect(reset, sid)
     ELSE Collect(reset)

\* a slip in onclose: the closure also discards the partial response
onclose_ClearsBuffer(st, s, code) ==
  LET sid == st.sockets[s].session
      closed == [st EXCEPT !.sockets[s].readyState = "CLOSED",
                           !.sockets[s].closing = "none",
                           !.failing = Null]
      reset == clearCurrentResponse(
                 setAgentStatus(setWsConnection(setConnectionStatus(closed, FALSE), Null),
                                "idle"))
  IN IF code # NormalClosure /\ st.reconnectAttemptsRef < maxReconnectAttempts
     THEN scheduleReconnect(reset, sid)
     ELSE Collect(reset)

\* onclose of socket s with event.code = code
onclose(st, s, code) ==
  LET sid == st.sockets[s].session
      closed == [st EXCEPT !.sockets[s].readyState = "CLOSED",
                           !.sockets[s].closing = "none",
                           !.failing = Null]
      reset == setAgentStatus(setWsConnection(setConnectionStatus(closed, FALSE), Null),
                              "idle")
  IN IF code # NormalClosure /\ st.reconnectAttemptsRef < maxReconnectAttempts
     THEN scheduleReconnect(reset, sid)
     ELSE Collect(reset)

\* whether onclose(s, code) schedules a reconnect
Reschedules(st, code) ==
  code # NormalClosure /\ st.reconnectAttemptsRef < maxReconnectAttempts

\* onerror of socket s; the browser fires the close event of s right after it
onerror(st, s) == [setConnectionStatus(st, FALSE) EXCEPT !.failing = s]

\* the callback of timer t: reconnectAttemptsRef.current++, then connect()
\* of the render that created the socket whose onclose scheduled the timer
timerCallback(st, t, throws) ==
  LET sid == st.timers[t].session
      fired == [st EXCEPT !.timers[t].pending = FALSE,
                          !.reconnectAttemptsRef = @ + 1]
  IN Collect(connect(fired, sid, throws))

\* WebSocket.close(1000, reason): nothing when closing or closed; otherwise the
\* socket is closing, and its close event comes later
wsClose(st, s) ==
  CASE st.sockets[s].readyState = "CONNECTING" ->
         [st EXCEPT !.sockets[s].readyState = "CLOSING",
                    !.sockets[s].closing = "beforeOpen"]
    [] st.sockets[s].readyState = "OPEN" ->
         [st EXCEPT !.sockets[s].readyState = "CLOSING",
                    !.sockets[s].closing = "afterOpen"]
    [] OTHER -> st

\* clearTimeout(handle): nothing when the timer ran or was cleared already
clearTimeout(st, t) == [st EXCEPT !.timers[t].pending = FALSE]

\* disconnect()
disconnect(st) ==
  LET cleared == IF st.reconnectTimeoutRef # Null
                 THEN clearTimeout(st, st.reconnectTimeoutRef) ELSE st
      closed == IF cleared.wsRef # Null THEN wsClose(cleared, cleared.wsRef) ELSE cleared
  IN Collect(setWsConnection(setConnectionStatus(closed, FALSE), Null))

\* the connection state the rest of the system sees: appStore.isConnected, a
\* boolean, which the header shows as 'Disconnected' when it is false
ConnectionState(st) == IF st.isConnected THEN "connected" ELSE "disconnected"

\* the condition of sendMessage: wsRef.current?.readyState === WebSocket.OPEN
sendMessageReturns(st) ==
  st.wsRef # Null /\ st.sockets[st.wsRef].readyState = "OPEN"

\* a slip in sendMessage: the frame is handed to the transport before the
\* readyState test, so a transport the store still holds receives it
sendMessage_Unguarded(st, message) ==
  IF st.wsRef # Null
  THEN [st EXCEPT !.sockets[st.wsRef].sent = Append(@, message)]
  ELSE st

\* sendMessage(message): the frame goes to wsRef.current when it is open;
\* otherwise nothing is sent (the caller gets false and a toast is shown)
sendMessage(st, message) ==
  IF sendMessageReturns(st) THEN wsSend(st, st.wsRef, message) ELSE st

\* the toast of sendMessage
ConnectionLost == "Connection lost. Please refresh the page."
NoNotice == "<none>"
sendMessageNotice(st) == IF sendMessageReturns(st) THEN NoNotice ELSE ConnectionLost

\* a render of SessionPage: the hook returns
\* isConnected: wsRef.current?.readyState === WebSocket.OPEN, which the page
\* passes to ChatInterface.  Every call of a store setter is followed by one.
render(st) ==
  [st EXCEPT !.hookIsConnected =
               st.wsRef # Null /\ st.sockets[st.wsRef].readyState = "OPEN"]

\* the texts the user can have typed, and String.prototype.trim on them
ChatTexts == {"", "  ", "hi", " hi "}
trim(text) == IF text \in {"", "  "} THEN "" ELSE "hi"

\* ChatInterface.handleSend: isConnected is the prop of the last render,
\* agentStatus the store's value, onSendMessage the hook's sendMessage
handleSend_IgnoresAgentStatus(st, text) ==
  IF trim(text) = "" \/ ~st.hookIsConnected
  THEN st
  ELSE sendMessage(st, [type |-> "message", content |-> trim(text)])

handleSend(st, text) ==
  IF trim(text) = "" \/ ~st.hookIsConnected \/ st.agentStatus # "idle"
  THEN st
  ELSE sendMessage(st, [type |-> "message", content |-> trim(text)])

\* connect() calls a store setter only in its catch block
rendersIf(st, setterCalled) == IF setterCalled THEN render(st) ELSE st

\* the effect of useEffect([sessionId, connect, disconnect]) when the prop
\* changes to sid: the cleanup of the previous run, then the new run
effect(st, sid, throws) ==
  LET cleaned == disconnect(st)
      moved == [cleaned EXCEPT !.sessionId = sid]
  IN IF sid # NoSession THEN connect(moved, sid, throws) ELSE moved

\* SessionPage, onSuccess of the conversations query
loadConversations(st, list) ==
  LET loaded == [st EXCEPT !.conversations[st.sessionId] =
                              [i \in 1..Len(list) |-> Conversation(list[i])]]
  IN IF Len(list) > 0 /\ st.currentConversation = NoConversation
     THEN [loaded EXCEPT !.currentConversation = Conversation(list[1])]
     ELSE loaded


(***************************************************************************)
(* Inputs.                                                                 *)
(***************************************************************************)
MessageTypes ==
  {"pong", "agent_response_start", "agent_response_chunk", "agent_response_end",
   "code_execution", "code_result", "file_change", "agent_error", "error",
   "status_update"}

Frame(type, content, cid, full) ==
  [type |-> type, content |-> content, conversation_id |-> cid, full_response |-> full]

\* the parsed frames the server side can send
Messages ==
  {Frame("agent_response_chunk", c, NoField, NoField) : c \in {NoField, "", "a", "b"}}
  \cup {Frame("agent_response_end", NoField, cid, full) :
          cid \in {NoField, "c1", "c2", "c9"}, full \in {NoField, "", "G"}}
  \cup {Frame(type, NoField, NoField, NoField) :
          type \in MessageTypes \ {"agent_response_chunk", "agent_response_end"}}

NoMessage == Frame(NoField, NoField, NoField, NoField)

\* event.data: text that JSON.parse rejects, or the text of a message
RawFrames ==
  {[parses |-> FALSE, msg |-> NoMessage]} \cup {[parses |-> TRUE, msg |-> m] : m \in Messages}

\* the frames that end a response with one of two full responses, and the
\* frame that starts one
StoreFrames ==
  {[parses |-> TRUE, msg |-> Frame("agent_response_end", NoField, cid, full)] :
     cid \in {NoField, "c1", "c2", "c9"}, full \in {"G", "H"}}
  \cup {[parses |-> TRUE, msg |-> Frame("agent_response_start", NoField, NoField, NoField)]}

\* the codes of a close event that ends an established connection cleanly
CleanCodes == {NormalClosure, 1001}
\* the code of a close event that follows a failure (no close frame received)
FailureCodes == {1006}
CloseCodes == CleanCodes \cup FailureCodes

\* the record of the handler that ran last: the operation, the socket or timer
\* whose event it was, the close code, whether new WebSocket threw, the
\* type of the frame ("<malformed>" for a frame JSON.parse rejects), the value
\* the operation returned to its caller and the toast it showed
Ran(op, sock, timer, code, throws, type) ==
  [op |-> op, sock |-> sock, timer |-> timer, code |-> code, throws |-> throws,
   type |-> type, returned |-> FALSE, notice |-> NoNotice]

\* the frames the chat input hands to sendMessage
OutboundMessages == {[type |-> "message", content |-> "hi"]}

Malformed == "<malformed>"
TypeOf(raw) == IF raw.parses THEN raw.msg.type ELSE Malformed

\* whether handleMessage calls a store setter for this frame
CallsSetter(raw) ==
  /\ raw.parses
  /\ raw.msg.type \in {"agent_response_start", "agent_response_chunk",
                        "agent_response_end", "code_execution", "code_result",
                        "agent_error"}
  /\ raw.msg.type = "agent_response_chunk" => Truthy(raw.msg.content)

\* what a frame may grow stays within the bounds of the model
WithinBounds(st) ==
  /\ Len(st.currentResponse) <= MaxBuf
  /\ Len(st.currentConversation.messages) <= MaxMsgs
  /\ \A sid \in Sessions : \A i \in 1..Len(st.conversations[sid]) :
        Len(st.conversations[sid][i].messages) <= MaxMsgs

Apply(st) ==
  LET c == Collect(st) IN
    /\ sessionId' = c.sessionId
    /\ sockets' = c.sockets
    /\ wsRef' = c.wsRef
    /\ timers' = c.timers
    /\ reconnectTimeoutRef' = c.reconnectTimeoutRef
    /\ reconnectAttemptsRef' = c.reconnectAttemptsRef
    /\ failing' = c.failing
    /\ isConnected' = c.isConnected
    /\ wsConnection' = c.wsConnection
    /\ agentStatus' = c.agentStatus
    /\ currentResponse' = c.currentResponse
    /\ conversations' = c.conversations
    /\ currentConversation' = c.currentConversation
    /\ hookIsConnected' = c.hookIsConnected

(***************************************************************************)
(* Initial state: the page is mounted without a session, the stores hold   *)
(* their initial values.                                                   *)
(***************************************************************************)
Init ==
  /\ sessionId = NoSession
  /\ sockets = [s \in SocketIds |-> FreeSocket]
  /\ wsRef = Null
  /\ timers = [t \in TimerIds |-> FreeTimer]
  /\ reconnectTimeoutRef = Null
  /\ reconnectAttemptsRef = 0
  /\ failing = Null
  /\ isConnected = FALSE
  /\ wsConnection = Null
  /\ agentStatus = "idle"
  /\ currentResponse = ""
  /\ conversations = [sid \in Sessions |-> <<>>]
  /\ currentConversation = NoConversation
  /\ hookIsConnected = FALSE
  /\ last = Ran("init", Null, Null, 0, FALSE, NoField)

(***************************************************************************)
(* Actions: one per handler or exposed operation.                          *)
(***************************************************************************)
\* the sessionId prop changes (mount of a session, navigation, leaving)
Navigate(sid, throws) ==
  /\ failing = Null
  /\ sid # sessionId
  /\ sid = NoSession => ~throws
  /\ CanConnect(disconnect(State), sid, throws)
  /\ Apply(render(effect(State, sid, throws)))
  /\ last' = Ran("navigate", Null, Null, 0, throws, NoField)

\* the exposed reconnect, which is connect
Reconnect(throws) ==
  /\ failing = Null
  /\ sessionId = NoSession => ~throws
  /\ CanConnect(State, sessionId, throws)
  /\ Apply(rendersIf(connect(State, sessionId, throws), throws))
  /\ last' = Ran("reconnect", Null, Null, 0, throws, NoField)

\* the exposed disconnect
Disconnect ==
  /\ failing = Null
  /\ Apply(render(disconnect(State)))
  /\ last' = Ran("disconnect", Null, Null, 0, FALSE, NoField)

\* a pending reconnect timer fires
TimerFire(t, throws) ==
  /\ failing = Null
  /\ timers[t].pending
  /\ CanConnect([State EXCEPT !.timers[t].pending = FALSE], timers[t].session, throws)
  /\ Apply(rendersIf(timerCallback(State, t, throws), throws))
  /\ last' = Ran("timer", Null, t, 0, throws, NoField)

\* the open event of socket s
Open(s) ==
  /\ failing = Null
  /\ sockets[s].readyState = "CONNECTING"
  /\ Apply(render(onopen(State, s)))
  /\ last' = Ran("open", s, Null, 0, FALSE, NoField)

\* a message event of socket s (fired only while the socket is open)
Message(s, raw) ==
  /\ failing = Null
  /\ sockets[s].readyState = "OPEN"
  /\ LET handled == onmessage(State, raw) IN
       WithinBounds(handled) /\ Apply(rendersIf(handled, CallsSetter(raw)))
  /\ last' = Ran("message", s, Null, 0, FALSE, TypeOf(raw))

\* the error event of socket s: the connection of s has failed
Error(s) ==
  /\ failing = Null
  /\ sockets[s].readyState \in Live
  /\ Apply(render(onerror(State, s)))
  /\ last' = Ran("error", s, Null, 0, FALSE, NoField)

\* the codes the close event of socket s can carry: 1006 after a failure (also
\* when close() was called before the connection was established); the code of
\* the peer's close frame when an established connection ends cleanly
PossibleCodes(s) ==
  IF failing = s THEN FailureCodes
  ELSE IF failing # Null THEN {}
  ELSE IF sockets[s].readyState = "OPEN" THEN CleanCodes
  ELSE IF sockets[s].readyState = "CLOSING" /\ sockets[s].closing = "afterOpen"
       THEN {NormalClosure}
  ELSE {}

\* the close event of socket s
Close(s, code) ==
  /\ code \in PossibleCodes(s)
  /\ Reschedules(State, code) => FreeTimerIds(State) # {}
  /\ Apply(render(onclose(State, s, code)))
  /\ last' = Ran("close", s, Null, code, FALSE, NoField)

\* the exposed sendMessage
Send(message) ==
  /\ failing = Null
  /\ sendMessageReturns(State) => Len(sockets[wsRef].sent) < MaxSent
  /\ Apply(sendMessage(State, message))
  /\ last' = [Ran("send", wsRef, Null, 0, FALSE, message.type)
                EXCEPT !.returned = sendMessageReturns(State),
                       !.notice = sendMessageNotice(State)]

\* the user presses Enter or the send button with text in the input
ChatSend(text) ==
  /\ failing = Null
  /\ \A s \in SocketIds : Len(handleSend(State, text).sockets[s].sent) <= MaxSent
  /\ Apply(handleSend(State, text))
  /\ last' = Ran("chat", wsRef, Null, 0, FALSE, "message")

\* SessionPage renders for a reason of its own (a query settles, a tab changes)
Render ==
  /\ failing = Null
  /\ hookIsConnected # sendMessageReturns(State)
  /\ Apply(render(State))
  /\ last' = Ran("render", Null, Null, 0, FALSE, NoField)

\* the conversations query of SessionPage succeeds
LoadConversations(list) ==
  /\ failing = Null
  /\ sessionId # NoSession
  /\ list \in ServerConversations(sessionId)
  /\ Apply(render(loadConversations(State, list)))
  /\ last' = Ran("load", Null, Null, 0, FALSE, NoField)

Next ==
  \/ \E sid \in Sessions \cup {NoSession}, throws \in BOOLEAN : Navigate(sid, throws)
  \/ \E throws \in BOOLEAN : Reconnect(throws)
  \/ Disconnect
  \/ \E t \in TimerIds, throws \in BOOLEAN : TimerFire(t, throws)
  \/ \E s \in SocketIds : Open(s)
  \/ \E s \in SocketIds, raw \in RawFrames : Message(s, raw)
  \/ \E s \in SocketIds : Error(s)
  \/ \E s \in SocketIds, code \in CloseCodes : Close(s, code)
  \/ \E message \in OutboundMessages : Send(message)
  \/ \E text \in ChatTexts : ChatSend(text)
  \/ Render
  \/ \E list \in ServerConversations(sessionId) : LoadConversations(list)

Spec == Init /\ [][Next]_vars


\* The connection manager alone: no frame is delivered.
NextConnection ==
  \/ \E sid \in Sessions \cup {NoSession}, throws \in BOOLEAN : Navigate(sid, throws)
  \/ \E throws \in BOOLEAN : Reconnect(throws)
  \/ Disconnect
  \/ \E t \in TimerIds, throws \in BOOLEAN : TimerFire(t, throws)
  \/ \E s \in SocketIds : Open(s)
  \/ \E s \in SocketIds : Error(s)
  \/ \E s \in SocketIds, code \in CloseCodes : Close(s, code)

SpecConnection == Init /\ [][NextConnection]_vars

\* The dispatcher and the stores over one transport: the session page is
\* opened, its transport opens, every frame is delivered, and the transport is
\* closed by the server or fails.  What the connection manager does after a
\* closure (timers, retries, disconnect) is the subject of SpecConnection.
NextDispatch ==
  \/ \E sid \in Sessions : Navigate(sid, FALSE)
  \/ \E s \in SocketIds : Open(s)
  \/ \E s \in SocketIds, raw \in RawFrames : Message(s, raw)
  \/ \E s \in SocketIds : Error(s)
  \/ \E s \in SocketIds, code \in CloseCodes : Close(s, code)
  \/ \E list \in ServerConversations(sessionId) : LoadConversations(list)

SpecDispatch == Init /\ [][NextDispatch]_vars

\* The conversation store under the dispatcher: over one open transport,
\* responses with different contents are committed, and the conversations
\* query of the session page reloads the list.
NextStore ==
  \/ \E sid \in Sessions : Navigate(sid, FALSE)
  \/ \E s \in SocketIds : Open(s)
  \/ \E s \in SocketIds, raw \in StoreFrames : Message(s, raw)
  \/ \E list \in ServerConversations(sessionId) : LoadConversations(list)

SpecStore == Init /\ [][NextStore]_vars

\* Recovery: the session page is opened and stays open, the user may send
\* messages, and nothing calls disconnect() or reconnect().  The event loop
\* runs a timer that is due, and the browser fires the close event of a
\* transport whose connection has failed.
NextRecovery ==
  \/ \E sid \in Sessions, throws \in BOOLEAN : Navigate(sid, throws)
  \/ \E t \in TimerIds, throws \in BOOLEAN : TimerFire(t, throws)
  \/ \E s \in SocketIds : Open(s)
  \/ \E s \in SocketIds : Error(s)
  \/ \E s \in SocketIds, code \in CloseCodes : Close(s, code)
  \/ \E message \in OutboundMessages : Send(message)

TimersRun == \E t \in TimerIds, throws \in BOOLEAN : TimerFire(t, throws)
FailureCloses == \E s \in SocketIds, code \in FailureCodes : failing = s /\ Close(s, code)

SpecRecovery ==
  Init /\ [][NextRecovery]_vars /\ WF_vars(TimersRun) /\ WF_vars(FailureCloses)

\* A response is streaming when the connection is lost, or disconnect() is
\* called, and the reconnect timer brings up a new transport.
ResumeFrames ==
  {[parses |-> TRUE, msg |-> Frame("agent_response_chunk", c, NoField, NoField)] :
     c \in {"a", "b"}}
  \cup {[parses |-> TRUE, msg |-> Frame("agent_response_start", NoField, NoField, NoField)]}

NextResume ==
  \/ \E sid \in Sessions : Navigate(sid, FALSE)
  \/ Disconnect
  \/ \E t \in TimerIds : TimerFire(t, FALSE)
  \/ \E s \in SocketIds : Open(s)
  \/ \E s \in SocketIds, raw \in ResumeFrames : Message(s, raw)
  \/ \E s \in SocketIds : Error(s)
  \/ \E s \in SocketIds, code \in CloseCodes : Close(s, code)

SpecResume == Init /\ [][NextResume]_vars

\* Session changes: the sessionId prop changes between a session and none, so
\* the cleanup of the effect closes the transport of the previous run; no one
\* calls reconnect() or disconnect() directly.
NextCleanup ==
  \/ \E sid \in Sessions \cup {NoSession} : Navigate(sid, FALSE)
  \/ \E s \in SocketIds : Open(s)
  \/ \E s \in SocketIds : Error(s)
  \/ \E s \in SocketIds, code \in CloseCodes : Close(s, code)
  \/ \E t \in TimerIds : TimerFire(t, FALSE)

SpecCleanup == Init /\ [][NextCleanup]_vars

\* The outbound path: transports are created (by the session page and by the
\* exposed reconnect), open, are closed by the server, and sendMessage is
\* called at any point in between.
NextSend ==
  \/ \E sid \in Sessions : Navigate(sid, FALSE)
  \/ Reconnect(FALSE)
  \/ \E s \in SocketIds : Open(s)
  \/ \E s \in SocketIds, code \in CloseCodes : Close(s, code)
  \/ \E message \in OutboundMessages : Send(message)

SpecSend == Init /\ [][NextSend]_vars

\* The chat input over a session whose agent errs and recovers.
ChatFrames ==
  {raw \in RawFrames : /\ raw.parses
                        /\ raw.msg.type \in {"agent_error", "code_execution",
                                              "code_result"}}

NextChat ==
  \/ \E sid \in Sessions : Navigate(sid, FALSE)
  \/ Reconnect(FALSE)
  \/ \E s \in SocketIds : Open(s)
  \/ \E s \in SocketIds, raw \in ChatFrames : Message(s, raw)
  \/ \E s \in SocketIds : Close(s, NormalClosure)
  \/ \E text \in ChatTexts : ChatSend(text)
  \/ Render

SpecChat == Init /\ [][NextChat]_vars


(***************************************************************************)
(* Properties of the dispatcher and of the streaming accumulator.          *)
(***************************************************************************)
ParsedFrames == {raw \in RawFrames : raw.parses}

\* agent_response_end frames without / with a full_response the code accepts
EndWithoutOverride ==
  {raw \in ParsedFrames : raw.msg.type = "agent_response_end"
                          /\ ~Truthy(raw.msg.full_response)}
EndWithOverride ==
  {raw \in ParsedFrames : raw.msg.type = "agent_response_end"
                          /\ Truthy(raw.msg.full_response)}

\* the assistant Message with this content for the conversation the frame names
Finalized(raw, content) ==
  [conversation_id |-> OrEmpty(raw.msg.conversation_id), role |-> "assistant",
   content |-> content]

\* the step appends exactly m to every stored conversation with id cid and to
\* the current conversation when it has id cid, and changes no other conversation
AppendsOnceTo(cid, m) ==
  /\ \A sid \in Sessions :
       /\ Len(conversations'[sid]) = Len(conversations[sid])
       /\ \A i \in 1..Len(conversations[sid]) :
            /\ conversations'[sid][i].id = conversations[sid][i].id
            /\ conversations'[sid][i].messages =
                 IF conversations[sid][i].id = cid
                 THEN Append(conversations[sid][i].messages, m)
                 ELSE conversations[sid][i].messages
  /\ currentConversation'.id = currentConversation.id
  /\ currentConversation'.messages =
       IF currentConversation.id = cid
       THEN Append(currentConversation.messages, m)
       ELSE currentConversation.messages

\* some stored conversation has id cid
IsStored(cid) ==
  \E sid \in Sessions : \E i \in 1..Len(conversations[sid]) : conversations[sid][i].id = cid

\* the handler that ran last is onmessage, for an agent_response_end frame
HandledEnd == last.op = "message" /\ last.type = "agent_response_end"

\* C1: an agent_response_end frame without full_response commits exactly one
\* assistant Message whose content is the accumulated buffer (the chunks since
\* the start, in arrival order) to the conversation it names, and leaves the
\* buffer empty.
C1_StreamingRoundTrip ==
  [][HandledEnd' =>
       \A s \in SocketIds, raw \in EndWithoutOverride :
         (Message(s, raw) /\ IsStored(raw.msg.conversation_id))
           => /\ AppendsOnceTo(raw.msg.conversation_id, Finalized(raw, currentResponse))
              /\ currentResponse' = ""]_vars

\* C2: an agent_response_end frame with a non-empty full_response appends
\* exactly one assistant Message to the conversation named by conversation_id,
\* with content full_response whatever the buffer holds; the agent state is
\* idle and the buffer empty afterwards.
C2_OverridePrecedence ==
  [][HandledEnd' =>
       \A s \in SocketIds, raw \in EndWithOverride :
         Message(s, raw)
           => /\ AppendsOnceTo(raw.msg.conversation_id,
                               Finalized(raw, raw.msg.full_response))
              /\ agentStatus' = "idle"
              /\ currentResponse' = ""]_vars

\* C2 witness: an end frame with full_response "G" was handled while chunks
\* were buffered; the stored conversation c1 and the current one end with it.
C2_Witness ==
  /\ last.op = "message" /\ last.type = "agent_response_end"
  /\ Len(conversations["s1"]) > 0
  /\ conversations["s1"][1].messages = <<[conversation_id |-> "c1", role |-> "assistant",
                                          content |-> "G"]>>
  /\ currentConversation.messages = conversations["s1"][1].messages
  /\ agentStatus = "idle" /\ currentResponse = ""

\* C3: an agent_response_end frame that arrives with an empty buffer and no
\* full_response commits a Message with empty content to the conversation it
\* names, and leaves the buffer empty.
C3_EmptyFinalization ==
  [][(HandledEnd' /\ currentResponse = "") =>
       \A s \in SocketIds, raw \in EndWithoutOverride :
         (Message(s, raw) /\ IsStored(raw.msg.conversation_id))
             => /\ AppendsOnceTo(raw.msg.conversation_id, Finalized(raw, ""))
              /\ currentResponse' = ""]_vars

\* the agent state each state-transitioning frame type dictates
Dictated(type) ==
  CASE type = "agent_response_start" -> "responding"
    [] type = "agent_response_end" -> "idle"
    [] type = "code_execution" -> "executing"
    [] type = "code_result" -> "idle"
    [] type = "agent_error" -> "error"

Transitioning ==
  {"agent_response_start", "agent_response_end", "code_execution", "code_result",
   "agent_error"}

\* C9: handling a frame leaves the agent state at what the frame dictates when
\* it is a state-transitioning frame, and unchanged otherwise (pong, chunk,
\* file_change, error, unrecognized, unparseable); by induction the state after
\* a sequence of frames is dictated by its last state-transitioning frame.
C9_LastTransitionWins ==
  [][last'.op = "message"
       => agentStatus' = IF last'.type \in Transitioning
                         THEN Dictated(last'.type)
                         ELSE agentStatus]_vars

\* C9 witness: an error notice was handled after code_execution, and the
\* state is still the one code_execution dictated.
C9_Witness ==
  last.op = "message" /\ last.type = "error" /\ agentStatus = "executing"

ActiveStatuses == {"thinking", "responding", "executing"}

\* C10: the agent state never moves directly from one of thinking, responding,
\* executing to another of them.
C10_NoCrossTransition ==
  [][(agentStatus \in ActiveStatuses /\ agentStatus' \in ActiveStatuses)
       => agentStatus' = agentStatus]_vars


(***************************************************************************)
(* Properties of the connection manager.                                   *)
(***************************************************************************)
\* the transports that are connecting or open; each has the four handlers
\* connect attached to it, for as long as it exists
Attached == {s \in SocketIds : sockets[s].readyState \in {"CONNECTING", "OPEN"}}

\* C4: at most one transport with attached handlers is connecting or open.
C4_AtMostOneLiveTransport == Cardinality(Attached) <= 1

\* the timers that the step scheduled
Scheduled == {t \in TimerIds : timers'[t].pending /\ ~timers[t].pending}

\* the handler that ran last is onclose
HandledClose == last.op = "close"

\* C5: the close event of a transport that disconnect() closed, in whatever
\* state it was (connecting or open) and for every value of the attempt
\* counter, schedules no reconnect timer and creates no transport.
C5_GracefulClosureNeverReconnects ==
  [][HandledClose' =>
       \A s \in SocketIds, code \in CloseCodes :
         (Close(s, code) /\ sockets[s].closing # "none")
           => Scheduled = {} /\ Attached' \subseteq Attached]_vars

\* C6: a closure with a code other than 1000 at attempt counter N < 5
\* schedules one reconnect after min(1000 * 2^N, 30000) ms; at the ceiling of 5
\* no reconnect is scheduled, and once five reconnects in a row have failed
\* (the counter is at the ceiling and no transport is connecting or open) no
\* timer-driven reconnect runs.
C6_BackoffAndCeiling ==
  [][/\ HandledClose' =>
          \A s \in SocketIds, code \in CloseCodes \ {NormalClosure} :
            Close(s, code) =>
              IF reconnectAttemptsRef < maxReconnectAttempts
              THEN \E t \in TimerIds :
                     /\ Scheduled = {t}
                     /\ reconnectTimeoutRef' = t
                     /\ timers'[t].delay = Min(1000 * (2 ^ reconnectAttemptsRef), 30000)
              ELSE Scheduled = {}
     /\ (last'.op = "timer" /\ Attached = {})
          => reconnectAttemptsRef < maxReconnectAttempts]_vars

\* C7: when new WebSocket throws inside connect, a reconnect is scheduled
\* under the backoff policy, as for a non-graceful closure.
C7_ConstructionFailureReconnects ==
  [][(last'.throws /\ reconnectAttemptsRef' < maxReconnectAttempts)
       => \E t \in TimerIds :
            /\ Scheduled = {t}
            /\ timers'[t].delay = Min(1000 * (2 ^ reconnectAttemptsRef'), 30000)]_vars

\* C8: disconnect() leaves no reconnect timer pending, and the transport
\* wsRef.current holds is closing or closed.
C8_DisconnectCancels ==
  [][last'.op = "disconnect"
       => /\ \A t \in TimerIds : ~timers'[t].pending
          /\ wsRef' # Null => sockets'[wsRef'].readyState \in {"CLOSING", "CLOSED"}]_vars


\* C20: the visible connection state is one of disconnected, connecting,
\* connected; it is connecting from the creation of a transport until the open
\* or close event of that transport, connected after an open event and
\* disconnected after a close event.
C20_ConnectionStateTracksTransport ==
  /\ ConnectionState(State) \in {"disconnected", "connecting", "connected"}
  /\ (last.op \in {"navigate", "reconnect", "timer"}
      /\ wsRef # Null /\ sockets[wsRef].readyState = "CONNECTING")
       => ConnectionState(State) = "connecting"
  /\ last.op = "open" => ConnectionState(State) = "connected"
  /\ last.op = "close" => ConnectionState(State) = "disconnected"

\* the reconnect timers that are pending
Pending == {t \in TimerIds : timers[t].pending}

\* C26: at most one reconnect timer is pending, and none is pending while a
\* transport is connecting or open.
C26_OneTimerAndNoneWhileLive ==
  /\ Cardinality(Pending) <= 1
  /\ Attached # {} => Pending = {}

\* C27: the reconnect-attempt counter is within 0..5.
C27_CounterWithinCeiling ==
  reconnectAttemptsRef \in 0..maxReconnectAttempts

(***************************************************************************)
(* Properties of the outbound path.                                        *)
(***************************************************************************)
\* the connection state and the stores, without the transports
StoreVars ==
  <<sessionId, wsRef, timers, reconnectTimeoutRef, reconnectAttemptsRef,
    isConnected, wsConnection, agentStatus, currentResponse, conversations,
    currentConversation>>

\* C11: sendMessage(message) transmits the frame on wsRef.current and returns
\* true when wsRef.current is open; otherwise it transmits nothing on any
\* transport, returns false and shows the toast.  In both cases the connection
\* state and the stores are unchanged.
C11_SendOnlyWhenOpen ==
  [][last'.op = "send" =>
       \A message \in OutboundMessages :
         Send(message) =>
           /\ UNCHANGED StoreVars
           /\ IF wsRef # Null /\ sockets[wsRef].readyState = "OPEN"
              THEN /\ last'.returned /\ last'.notice = NoNotice
                   /\ sockets' = [sockets EXCEPT ![wsRef].sent = Append(@, message)]
              ELSE /\ ~last'.returned /\ last'.notice = ConnectionLost
                   /\ UNCHANGED sockets]_vars

\* C11 witness: sendMessage returned false and showed the toast while the
\* current transport was still connecting and an earlier transport was open.
C11_Witness ==
  /\ last.op = "send" /\ ~last.returned /\ last.notice = ConnectionLost
  /\ wsRef # Null /\ sockets[wsRef].readyState = "CONNECTING"
  /\ \E s \in SocketIds : sockets[s].readyState = "OPEN"

\* C21: after the open event of a transport the only frame that transport
\* has sent is the ping, so the ping precedes every other outbound frame on
\* it; and sendMessage succeeds on an open transport whether or not a pong
\* has arrived.
C21_PingFirstOnOpenedTransport ==
  [][/\ last'.op = "open" => sockets'[last'.sock].sent = <<Ping>>
     /\ (last'.op = "send" /\ wsRef # Null /\ sockets[wsRef].readyState = "OPEN")
          => last'.returned]_vars

\* C22: after a close event with a code other than 1000 at an attempt counter
\* below 5, the reconnect timer eventually fires and runs connect(); and once
\* the open event of an attempt has been handled the connection is reported
\* connected.
C22_RecoveryLiveness ==
  /\ (HandledClose /\ last.code # NormalClosure
        /\ reconnectAttemptsRef < maxReconnectAttempts) ~> (last.op = "timer")
  /\ (last.op = "open") ~> isConnected

\* C22 witness: the third reconnect in a row ran and created a transport.
C22_Witness ==
  /\ last.op = "timer" /\ ~last.throws
  /\ reconnectAttemptsRef = 3
  /\ wsRef # Null /\ sockets[wsRef].readyState = "CONNECTING"

(***************************************************************************)
(* Properties of the handlers across components.                           *)
(***************************************************************************)
\* C12: after the close event of any transport, with any close code, the
\* agent state is idle.
C12_CloseForcesIdle ==
  [][last'.op = "close" => agentStatus' = "idle"]_vars

\* C12 witness: a transport closed with the normal-closure code while a
\* response was streaming (chunks are still in the buffer), and the agent
\* state is idle.
C12_Witness ==
  /\ last.op = "close" /\ last.code = NormalClosure
  /\ currentResponse # ""
  /\ agentStatus = "idle"

\* agent_response_chunk frames
ChunkFrames == {raw \in ParsedFrames : raw.msg.type = "agent_response_chunk"}

\* the text a chunk frame carries (none when content is absent)
ChunkText(raw) == IF raw.msg.content = NoField THEN "" ELSE raw.msg.content

\* C13: agent_response_start leaves the buffer empty; a chunk appends its
\* content at the end of the buffer; nothing but start, chunk and end changes
\* the buffer.  Hence between a start and the next start or end the buffer is
\* the concatenation, in arrival order, of the chunks received since the start.
C13_NoInterleaving ==
  [][CASE last'.op = "message" /\ last'.type = "agent_response_start" ->
            currentResponse' = ""
       [] last'.op = "message" /\ last'.type = "agent_response_chunk" ->
            \A s \in SocketIds, raw \in ChunkFrames :
              Message(s, raw) => currentResponse' = currentResponse \o ChunkText(raw)
       [] last'.op = "message" /\ last'.type = "agent_response_end" -> TRUE
       [] OTHER -> currentResponse' = currentResponse]_vars

\* C13 witness: the chunks "a" and "b" arrived in this order during a
\* response cycle.
C13_Witness ==
  /\ last.op = "message" /\ last.type = "agent_response_chunk"
  /\ agentStatus = "responding"
  /\ currentResponse = "ab"

\* the state of the program: everything but the record of the last handler
ProgramVars ==
  <<sessionId, sockets, wsRef, timers, reconnectTimeoutRef, reconnectAttemptsRef,
    failing, isConnected, wsConnection, agentStatus, currentResponse,
    conversations, currentConversation>>

\* C14: a frame JSON.parse rejects changes nothing: agent state, buffer,
\* conversations and connection state keep their values, the transport that
\* delivered it stays open with its handlers, and so every later frame is
\* handled as it would have been without the malformed one.
C14_MalformedFrameDropped ==
  [][(last'.op = "message" /\ last'.type = Malformed)
       => /\ UNCHANGED ProgramVars
          /\ sockets'[last'.sock].readyState = "OPEN"]_vars

\* C14 witness: a malformed frame was handled in the middle of a response
\* cycle, which is still in progress on the open transport.
C14_Witness ==
  /\ last.op = "message" /\ last.type = Malformed
  /\ agentStatus = "responding" /\ currentResponse = "a"
  /\ sockets[last.sock].readyState = "OPEN" /\ isConnected

\* C15: the open event of a transport sets the attempt counter to 0, and the
\* non-graceful closure of an open transport is retried from the start of the
\* backoff: one reconnect is scheduled, after 1000 ms.
C15_OpenResetsBackoff ==
  [][/\ last'.op = "open" => reconnectAttemptsRef' = 0
     /\ HandledClose' =>
          \A s \in SocketIds, code \in CloseCodes \ {NormalClosure} :
            (Close(s, code) /\ sockets[s].readyState = "OPEN")
              => \E t \in TimerIds : Scheduled = {t} /\ timers'[t].delay = BaseDelay]_vars

\* C17: agent_response_start changes the buffer and the agent state only,
\* agent_response_chunk changes the buffer only: the conversations, their
\* message sequences and the current conversation stay as they were, and so
\* does the connection state.
C17_InFlightNotCommitted ==
  [][(last'.op = "message"
      /\ last'.type \in {"agent_response_start", "agent_response_chunk"})
       => /\ UNCHANGED <<conversations, currentConversation>>
          /\ UNCHANGED <<sessionId, sockets, wsRef, timers, reconnectTimeoutRef,
                         reconnectAttemptsRef, failing, isConnected, wsConnection>>
          /\ last'.type = "agent_response_chunk" => UNCHANGED agentStatus]_vars

\* C17 witness: a chunk was handled and is in the buffer, while conversation
\* c1 holds the one message committed earlier.
C17_Witness ==
  /\ last.op = "message" /\ last.type = "agent_response_chunk"
  /\ currentResponse = "a"
  /\ currentConversation.id = "c1"
  /\ Len(currentConversation.messages) = 1
  /\ currentConversation.messages[1].content = "G"

\* C18: agent_error sets the agent state to error whatever it was; when the
\* state is error, agent_response_start moves it to responding, and
\* agent_response_end then leaves it idle.
C18_ErrorAndRecovery ==
  [][last'.op = "message" =>
       /\ last'.type = "agent_error" => agentStatus' = "error"
       /\ (agentStatus = "error" /\ last'.type = "agent_response_start")
            => agentStatus' = "responding"
       /\ (agentStatus = "responding" /\ last'.type = "agent_response_end")
            => agentStatus' = "idle"]_vars

\* C18 witness: agent_error arrived in the middle of a streamed response.
C18_Witness ==
  /\ last.op = "message" /\ last.type = "agent_error"
  /\ agentStatus = "error"
  /\ currentResponse = "a"

\* the frame types with a case that changes a store
Mutating ==
  {"agent_response_start", "agent_response_chunk", "agent_response_end",
   "code_execution", "code_result", "agent_error"}

\* C19: a pong, file_change or error frame, and a frame whose type has no
\* case, change nothing: agent state, buffer, conversations, current
\* conversation, connection state, refs, timers and transports are as before.
C19_InertFrames ==
  [][(last'.op = "message" /\ last'.type \notin Mutating \cup {Malformed})
       => UNCHANGED ProgramVars]_vars

\* C19 witness: a frame of an unknown type was handled in the middle of a
\* streamed response, which is still in progress.
C19_Witness ==
  /\ last.op = "message" /\ last.type = "status_update"
  /\ agentStatus = "responding" /\ currentResponse = "a"
  /\ isConnected

\* C24: whenever the connection is reported disconnected the agent state is
\* idle.
C24_DisconnectedImpliesIdle == ~isConnected => agentStatus = "idle"

\* C25: whenever the most recently created transport is open (its open event
\* has been handled, it has not closed and no error event of it is being
\* handled), the connection is reported connected and wsConnection is that
\* transport.
C25_StaleCloseDoesNotClobber ==
  (wsRef # Null /\ sockets[wsRef].readyState = "OPEN" /\ failing # wsRef)
    => isConnected /\ wsConnection = wsRef

\* the chunk frames of ResumeFrames
ResumeChunks == {raw \in ResumeFrames : raw.msg.type = "agent_response_chunk"}

\* C28: a close event, disconnect(), and the error, timer and open events of
\* a reconnect leave the buffer as it is; a chunk that arrives afterwards, on
\* whichever transport, is appended to the content the buffer still holds.
C28_BufferSurvivesConnectionLoss ==
  [][/\ last'.op \in {"close", "disconnect", "error", "timer", "open"}
          => currentResponse' = currentResponse
     /\ (last'.op = "message" /\ last'.type = "agent_response_chunk") =>
          \A s \in SocketIds, raw \in ResumeChunks :
            Message(s, raw) => currentResponse' = currentResponse \o raw.msg.content]_vars

\* C28 witness: the reconnect timer ran after the connection was lost in the
\* middle of a response, and the buffer still holds the chunk received before.
C28_Witness ==
  /\ last.op = "timer"
  /\ currentResponse = "a"
  /\ agentStatus = "idle"
  /\ wsRef # Null /\ sockets[wsRef].readyState = "CONNECTING"

\* C29: the agent state is never thinking: it is one of idle, responding,
\* executing, error.
C29_ThinkingUnreachable ==
  agentStatus \in {"idle", "responding", "executing", "error"}

\* C29 witness: the agent state took a value other than idle, here executing
\* after a code_execution frame that interrupted a response.
C29_Witness ==
  /\ last.op = "message" /\ last.type = "code_execution"
  /\ agentStatus = "executing"
  /\ currentResponse # ""

\* a step in which some transport is handed one more outbound frame
Emits == \E s \in SocketIds : Len(sockets'[s].sent) > Len(sockets[s].sent)

\* C30: the chat input emits an outbound message frame only when the text is
\* non-blank, the connection is reported connected to the input and the agent
\* state is idle; while the agent state is error a send from the input emits
\* nothing, and the state leaves error for idle only by an inbound frame or a
\* close event of a transport.
C30_SendGating ==
  [][/\ last'.op = "chat" =>
          \A text \in ChatTexts :
            (ChatSend(text) /\ Emits) =>
               /\ trim(text) # ""
               /\ hookIsConnected
               /\ agentStatus = "idle"
               /\ sockets'[wsRef].sent =
                    Append(sockets[wsRef].sent,
                           [type |-> "message", content |-> trim(text)])
     /\ (last'.op = "chat" /\ agentStatus = "error") => UNCHANGED sockets
     /\ (agentStatus = "error" /\ agentStatus' = "idle") =>
          last'.op \in {"message", "close"}]_vars

\* C30 witness: the input sent a message on the open transport, the agent then
\* signalled an error, and a further send from the input emitted nothing.
C30_Witness ==
  /\ last.op = "chat"
  /\ agentStatus = "error"
  /\ hookIsConnected
  /\ wsRef # Null /\ sockets[wsRef].readyState = "OPEN"
  /\ sockets[wsRef].sent = <<Ping, [type |-> "message", content |-> "hi"]>>

(***************************************************************************)
(* Properties of the conversation store.                                   *)
(***************************************************************************)
IsPrefix(a, b) == Len(a) <= Len(b) /\ SubSeq(b, 1, Len(a)) = a

\* C16: handling an inbound frame keeps every stored conversation and the
\* current conversation in place, with the message sequence it had as a prefix
\* of the one it has afterwards: committed messages are neither removed nor
\* reordered nor rewritten.
C16_AppendOnly ==
  [][last'.op = "message" =>
       /\ \A sid \in Sessions :
            /\ Len(conversations'[sid]) = Len(conversations[sid])
            /\ \A i \in 1..Len(conversations[sid]) :
                 /\ conversations'[sid][i].id = conversations[sid][i].id
                 /\ IsPrefix(conversations[sid][i].messages,
                             conversations'[sid][i].messages)
       /\ currentConversation'.id = currentConversation.id
       /\ IsPrefix(currentConversation.messages, currentConversation'.messages)]_vars

\* C16 witness: the response "H" was committed to conversation c1 after the
\* response "G", and both copies of the conversation hold them in this order.
C16_Witness ==
  /\ last.op = "message" /\ last.type = "agent_response_end"
  /\ Len(conversations["s1"]) > 0
  /\ Len(conversations["s1"][1].messages) = 2
  /\ conversations["s1"][1].messages[1].content = "G"
  /\ conversations["s1"][1].messages[2].content = "H"
  /\ currentConversation.messages = conversations["s1"][1].messages

\* the frames of StoreFrames that end a response
StoreEndFrames == {raw \in StoreFrames : raw.msg.type = "agent_response_end"}

\* C23: the Message an agent_response_end frame commits is appended at the end
\* of exactly the stored conversations whose id is its conversation_id and of
\* the current conversation when its id matches, and no other conversation
\* changes; a stored conversation that had the same messages as the current
\* conversation of the same id still has the same messages; a frame without
\* conversation_id (routed to '') or with an unknown id changes no conversation.
C23_RoutingAndCopies ==
  [][HandledEnd' =>
       \A s \in SocketIds, raw \in StoreEndFrames :
         Message(s, raw) =>
           /\ AppendsOnceTo(OrEmpty(raw.msg.conversation_id),
                            Finalized(raw, raw.msg.full_response))
           /\ \A sid \in Sessions : \A i \in 1..Len(conversations[sid]) :
                (/\ conversations[sid][i].id = currentConversation.id
                 /\ conversations[sid][i].messages = currentConversation.messages)
                  => conversations'[sid][i].messages = currentConversation'.messages
           /\ ~IsStored(OrEmpty(raw.msg.conversation_id))
                => UNCHANGED <<conversations, currentConversation>>]_vars

\* C23 witness: a response for conversation c2 was committed to the stored c2
\* only; the current conversation c1 and its stored entry are still empty.
C23_Witness ==
  /\ HandledEnd
  /\ Len(conversations["s1"]) = 2
  /\ Len(conversations["s1"][2].messages) = 1
  /\ conversations["s1"][2].messages[1].conversation_id = "c2"
  /\ conversations["s1"][1].messages = <<>>
  /\ currentConversation.id = "c1" /\ currentConversation.messages = <<>>

====
